---- MODULE Spec2Model ----
(***************************************************************************)
(* The to-do list application of meteor-first-steps: the Tasks collection, *)
(* the three Meteor methods that write to it, the 'tasks' publication that *)
(* reads from it, and the App component that renders the subscribed tasks. *)
(*                                                                         *)
(* The server runs each method invocation to completion before the next.   *)
(* The client's copy of Tasks is taken to be what the publication returns  *)
(* for its connection at that moment: method stubs and the delay of the    *)
(* subscription are the framework's and are not modelled. A Meteor.call of *)
(* the client returns at once; the server runs the call in a later step,   *)
(* in the order the calls were sent. The write of a task's private field   *)
(* is not in the sources; it is modelled from the data model (private:     *)
(* boolean, optional, mutable).                                            *)
(***************************************************************************)
EXTENDS Naturals, Sequences, FiniteSets, TLC

(* ---------------------------------------------------------------- bounds *)

\* Number of ids the store hands out (Tasks.insert calls that succeed).
MaxIds == 2

\* Last instant of the clock read by new Date().
MaxClock == 1

\* Number of method invocations the server processes.
MaxCalls == 4

\* Number of calls the client has sent that the server has not run yet.
MaxPending == 1

\* Number of method invocations the server processes during a session of
\* the App component.
MaxAppCalls == 3

(* ------------------------------------------------------ JavaScript values *)

\* A JavaScript value is a record of its typeof-like tag and its literal.
JSStr(s) == [t |-> "string", v |-> s]

JSNum(s) == [t |-> "number", v |-> s]

JSBool(b) == [t |-> "boolean", v |-> IF b THEN "true" ELSE "false"]

null == [t |-> "null", v |-> "null"]

undefined == [t |-> "undefined", v |-> "undefined"]

\* JavaScript truthiness, as used by `!this.userId`, `!task.checked` and
\* `currentUser && ...`.
Truthy(x) ==
    CASE x.t = "boolean" -> x.v = "true"
      [] x.t = "number" -> x.v \notin {"0", "NaN"}
      [] x.t = "string" -> x.v # ""
      [] x.t = "object" -> TRUE
      [] OTHER -> FALSE

\* check(value, pattern) of meteor/check: TRUE when the value matches, FALSE
\* when the call throws Match.Error.
check(value, pattern) ==
    CASE pattern = "String" -> value.t = "string"
      [] pattern = "Boolean" -> value.t = "boolean"
      [] OTHER -> FALSE

(* ------------------------------------------------------------------ users *)

\* The documents of Meteor.users: accounts created with USERNAME_ONLY.
Meteor_users ==
    { [t |-> "object", v |-> "user", _id |-> JSStr("uA"), username |-> JSStr("alice")],
      [t |-> "object", v |-> "user", _id |-> JSStr("uB"), username |-> JSStr("bob")] }

\* Meteor.users.findOne(id): the user document, or undefined.
Meteor_users_findOne(id) ==
    IF \E u \in Meteor_users : u._id = id
    THEN CHOOSE u \in Meteor_users : u._id = id
    ELSE undefined

\* this.userId of an invocation or of a connection: null or a user's id.
UserIds == {null} \cup {u._id : u \in Meteor_users}

(* ------------------------------------------------------------------ state *)

VARIABLES
    Tasks,          \* the documents of the 'tasks' collection
    calls,          \* the number of method invocations processed so far
    now,            \* the clock new Date() reads
    nextId,         \* the number of the next id the store assigns
    last,           \* the latest method invocation and the error it threw
    before,         \* the documents of Tasks when that invocation started
    text,           \* App: the draft text (useState(''))
    hideCompleted,  \* App: the hide-completed toggle (useState(false))
    pending,        \* the client's Meteor.call()s the server has not run yet
    clientUserId    \* Meteor.userId() of the client's connection

vars ==
    <<Tasks, calls, now, nextId, last, before, text, hideCompleted, pending,
      clientUserId>>

ui == <<text, hideCompleted, clientUserId>>

\* The id the store assigns to the n-th inserted document.
Random_id(n) == JSStr("id" \o ToString(n))

Ids == {Random_id(n) : n \in 1..MaxIds}

\* The strings a caller passes as task text.
Texts == {JSStr("Buy milk")}

\* The strings the user types in the new-task input (e.target.value).
Drafts == {JSStr("Buy milk")}

\* Values of another type than the method expects.
NotStrings == {JSNum("1"), undefined}

NotBooleans == {JSNum("1")}

Booleans == {JSBool(TRUE), JSBool(FALSE)}

(* ------------------------------------------------------- the collection *)

\* Tasks.insert(doc): the store adds the document under a fresh _id. Fields
\* the document does not carry (checked, private) read as undefined.
Tasks_insert(coll, doc, id) ==
    coll \cup {[_id |-> id, text |-> doc.text, createdAt |-> doc.createdAt,
                owner |-> doc.owner, username |-> doc.username,
                checked |-> undefined, private |-> undefined]}

\* Variant: the call removes every document (selector {}).
Tasks_remove_All(coll, taskId) == {}

\* Tasks.remove(taskId): removes the document whose _id is taskId, if any.
Tasks_remove(coll, taskId) == {d \in coll : d._id # taskId}

\* Variant: the update applies to every document (selector {}, multi).
Tasks_update_Multi(coll, taskId, setChecked) ==
    {[d EXCEPT !.checked = setChecked] : d \in coll}

\* Tasks.update(taskId, { $set: { checked: setChecked } }).
Tasks_update(coll, taskId, setChecked) ==
    {IF d._id = taskId THEN [d EXCEPT !.checked = setChecked] ELSE d : d \in coll}

\* Update of the private field of the document whose _id is taskId.
Tasks_update_private(coll, taskId, setToPrivate) ==
    {IF d._id = taskId THEN [d EXCEPT !.private = setToPrivate] ELSE d : d \in coll}

\* Selector { field: { $ne: x } }: also matches a document without the field.
Selector_ne(fieldValue, x) == fieldValue # x

\* Selector { field: x }: equality; null matches a null or missing field.
Selector_eq(fieldValue, x) ==
    IF x \in {null, undefined}
    THEN fieldValue \in {null, undefined}
    ELSE fieldValue = x

(* ------------------------------------------------------------ the methods *)

\* The end of a method invocation: the error it threw ("none" when it
\* returned), the store it leaves and the count of ids handed out.
Return(method, userId, args, error, store, idCount) ==
    /\ last' = [method |-> method, userId |-> userId, args |-> args, error |-> error]
    /\ calls < MaxCalls
    /\ calls' = calls + 1
    /\ before' = Tasks
    /\ Tasks' = store
    /\ nextId' = idCount
    /\ UNCHANGED <<now, ui>>

Throw(method, userId, args, error) ==
    Return(method, userId, args, error, Tasks, nextId)

\* Variant: the document is written before the caller is looked at.
tasks_insert_WriteFirst(userId, textArg) ==
    IF ~check(textArg, "String")
    THEN Throw("tasks.insert", userId, <<textArg>>, "Match failed")
    ELSE /\ nextId <= MaxIds
         /\ Return("tasks.insert", userId, <<textArg>>,
                   IF Truthy(userId) THEN "none" ELSE "not-authorized",
                   Tasks_insert(Tasks,
                                [text |-> textArg,
                                 createdAt |-> now,
                                 owner |-> userId,
                                 username |->
                                     IF Truthy(Meteor_users_findOne(userId))
                                     THEN Meteor_users_findOne(userId).username
                                     ELSE undefined],
                                Random_id(nextId)),
                   nextId + 1)

\* Variant: owner and username are written into each other's field.
tasks_insert_Swapped(userId, textArg) ==
    IF ~check(textArg, "String")
    THEN Throw("tasks.insert", userId, <<textArg>>, "Match failed")
    ELSE IF ~Truthy(userId)
    THEN Throw("tasks.insert", userId, <<textArg>>, "not-authorized")
    ELSE /\ nextId <= MaxIds
         /\ Return("tasks.insert", userId, <<textArg>>, "none",
                   Tasks_insert(Tasks,
                                [text |-> textArg,
                                 createdAt |-> now,
                                 owner |-> Meteor_users_findOne(userId).username,
                                 username |-> userId],
                                Random_id(nextId)),
                   nextId + 1)

\* Variant: the method as it is before accounts are added: no login
\* guard, and neither owner nor username in the document.
tasks_insert_NoAccounts(userId, textArg) ==
    IF ~check(textArg, "String")
    THEN Throw("tasks.insert", userId, <<textArg>>, "Match failed")
    ELSE /\ nextId <= MaxIds
         /\ Return("tasks.insert", userId, <<textArg>>, "none",
                   Tasks_insert(Tasks,
                                [text |-> textArg,
                                 createdAt |-> now,
                                 owner |-> undefined,
                                 username |-> undefined],
                                Random_id(nextId)),
                   nextId + 1)

\* 'tasks.insert'(text), invoked with this.userId = userId.
tasks_insert(userId, textArg) ==
    IF ~check(textArg, "String")
    THEN Throw("tasks.insert", userId, <<textArg>>, "Match failed")
    ELSE IF ~Truthy(userId)
    THEN Throw("tasks.insert", userId, <<textArg>>, "not-authorized")
    ELSE IF ~Truthy(Meteor_users_findOne(userId))
    THEN Throw("tasks.insert", userId, <<textArg>>, "TypeError")
    ELSE /\ nextId <= MaxIds
         /\ Return("tasks.insert", userId, <<textArg>>, "none",
                   Tasks_insert(Tasks,
                                [text |-> textArg,
                                 createdAt |-> now,
                                 owner |-> userId,
                                 username |-> Meteor_users_findOne(userId).username],
                                Random_id(nextId)),
                   nextId + 1)

\* Variant: taskId is not checked.
tasks_remove_NoCheck(userId, taskId) ==
    Return("tasks.remove", userId, <<taskId>>, "none",
           Tasks_remove(Tasks, taskId), nextId)

\* 'tasks.remove'(taskId).
tasks_remove(userId, taskId) ==
    IF ~check(taskId, "String")
    THEN Throw("tasks.remove", userId, <<taskId>>, "Match failed")
    ELSE Return("tasks.remove", userId, <<taskId>>, "none",
                Tasks_remove(Tasks, taskId), nextId)

\* Variant: the update also makes the caller the owner of the task.
tasks_setChecked_TakeOwner(userId, taskId, setChecked) ==
    IF ~check(taskId, "String")
    THEN Throw("tasks.setChecked", userId, <<taskId, setChecked>>, "Match failed")
    ELSE IF ~check(setChecked, "Boolean")
    THEN Throw("tasks.setChecked", userId, <<taskId, setChecked>>, "Match failed")
    ELSE Return("tasks.setChecked", userId, <<taskId, setChecked>>, "none",
                {IF d._id = taskId
                 THEN [d EXCEPT !.checked = setChecked, !.owner = userId]
                 ELSE d : d \in Tasks},
                nextId)

\* Variant: setChecked is not checked to be a boolean.
tasks_setChecked_NoBooleanCheck(userId, taskId, setChecked) ==
    IF ~check(taskId, "String")
    THEN Throw("tasks.setChecked", userId, <<taskId, setChecked>>, "Match failed")
    ELSE Return("tasks.setChecked", userId, <<taskId, setChecked>>, "none",
                Tasks_update(Tasks, taskId, setChecked), nextId)

\* 'tasks.setChecked'(taskId, setChecked).
tasks_setChecked(userId, taskId, setChecked) ==
    IF ~check(taskId, "String")
    THEN Throw("tasks.setChecked", userId, <<taskId, setChecked>>, "Match failed")
    ELSE IF ~check(setChecked, "Boolean")
    THEN Throw("tasks.setChecked", userId, <<taskId, setChecked>>, "Match failed")
    ELSE Return("tasks.setChecked", userId, <<taskId, setChecked>>, "none",
                Tasks_update(Tasks, taskId, setChecked), nextId)

\* The write that makes a task private or public again: private is set
\* to the given boolean on the document whose _id is taskId.
tasks_setPrivate(userId, taskId, setToPrivate) ==
    Return("tasks.setPrivate", userId, <<taskId, setToPrivate>>, "none",
           Tasks_update_private(Tasks, taskId, setToPrivate), nextId)

(* -------------------------------------------------------- the publication *)

\* Variant: the publication returns Tasks.find(), as autopublish does.
tasksPublication_All(userId) == Tasks

\* Meteor.publish('tasks', function tasksPublication() {...}) for a
\* connection whose this.userId is userId.
tasksPublication(userId) ==
    {d \in Tasks : \/ Selector_ne(d.private, JSBool(TRUE))
                   \/ Selector_eq(d.owner, userId)}

(* ------------------------------------------------------------- the client *)

\* Meteor.subscribe('tasks'): the documents of the client's Tasks collection.
subscribed == tasksPublication(clientUserId)

\* Meteor.user(): the document of the logged-in user, or null.
currentUser ==
    IF Truthy(clientUserId) THEN Meteor_users_findOne(clientUserId) ELSE null

\* find(S, { sort: { createdAt: -1 } }).fetch(): the documents of S, latest
\* first; the order among documents of one instant is the store's.
RECURSIVE SortCreatedAtDesc(_)
SortCreatedAtDesc(S) ==
    IF S = {} THEN <<>>
    ELSE LET d == CHOOSE x \in S : \A y \in S : y.createdAt <= x.createdAt
         IN <<d>> \o SortCreatedAtDesc(S \ {d})

\* withTracker: tasks.
tasks == SortCreatedAtDesc(subscribed)

\* withTracker: incompleteCount.
incompleteCount ==
    Cardinality({d \in subscribed : Selector_ne(d.checked, JSBool(TRUE))})

\* Variant: the filter keeps the tasks whose checked is false.
renderFilter_Strict(task) ==
    IF hideCompleted THEN task.checked = JSBool(FALSE) ELSE TRUE

\* The predicate of tasks.filter(...) in renderTasks.
renderFilter(task) == IF hideCompleted THEN ~Truthy(task.checked) ELSE TRUE

\* renderTasks(): the <Task> elements, each with its props.
renderTasks ==
    LET currentUserId == IF Truthy(currentUser) THEN currentUser._id ELSE currentUser
        shown == SelectSeq(tasks, renderFilter)
    IN [i \in 1..Len(shown) |->
           [showPrivateButton |-> shown[i].owner = currentUserId,
            key |-> shown[i]._id,
            task |-> shown[i]]]

\* onChange of the new-task input: setText(e.target.value).
setText(value) ==
    /\ text' = value
    /\ UNCHANGED <<Tasks, calls, now, nextId, last, before, hideCompleted, pending,
                   clientUserId>>

\* onClick of the checkbox: setHideCompleted(prev => !prev).
setHideCompleted ==
    /\ hideCompleted' = ~hideCompleted
    /\ UNCHANGED <<Tasks, calls, now, nextId, last, before, text, pending, clientUserId>>

\* onSubmit of the new-task form, rendered only when currentUser is set:
\* Meteor.call('tasks.insert', text) sends the call and returns. The call
\* carries the user id of the connection at the time it is sent: the server
\* runs a connection's calls, logins and logouts in the order they were sent.
handleSubmit ==
    /\ Truthy(currentUser)
    /\ Len(pending) < MaxPending
    /\ pending' = Append(pending, [method |-> "tasks.insert",
                                   userId |-> clientUserId,
                                   args |-> <<text>>])
    /\ UNCHANGED <<Tasks, calls, now, nextId, last, before, ui>>

\* The server runs the oldest call the client has sent.
runPending ==
    /\ pending # <<>>
    /\ Head(pending).method = "tasks.insert"
    /\ tasks_insert(Head(pending).userId, Head(pending).args[1])
    /\ pending' = Tail(pending)

\* AccountsUIWrapper: a user logs in on the client's connection.
login(u) ==
    /\ ~Truthy(clientUserId)
    /\ clientUserId' = u._id
    /\ UNCHANGED <<Tasks, calls, now, nextId, last, before, text, hideCompleted, pending>>

\* AccountsUIWrapper: the user logs out.
logout ==
    /\ Truthy(clientUserId)
    /\ clientUserId' = null
    /\ UNCHANGED <<Tasks, calls, now, nextId, last, before, text, hideCompleted, pending>>

\* Time passes between two reads of new Date().
Tick ==
    /\ now < MaxClock
    /\ now' = now + 1
    /\ UNCHANGED <<Tasks, calls, nextId, last, before, ui, pending>>

(* ---------------------------------------------------------- specification *)

Init ==
    /\ Tasks = {}
    /\ calls = 0
    /\ now = 0
    /\ nextId = 1
    /\ last = [method |-> "none", userId |-> null, args |-> <<>>, error |-> "none"]
    /\ before = {}
    /\ text = JSStr("")
    /\ hideCompleted = FALSE
    /\ pending = <<>>
    /\ clientUserId = null

\* The server runs a method for a connection whose this.userId is one of
\* callers, with arguments drawn from the given sets.
CallInsert(callers, textArgs) ==
    /\ \E userId \in callers, a \in textArgs : tasks_insert(userId, a)
    /\ UNCHANGED pending

CallRemove(callers, idArgs) ==
    /\ \E userId \in callers, a \in idArgs : tasks_remove(userId, a)
    /\ UNCHANGED pending

CallSetChecked(callers, idArgs, checkedArgs) ==
    /\ \E userId \in callers, a \in idArgs, b \in checkedArgs :
           tasks_setChecked(userId, a, b)
    /\ UNCHANGED pending

CallSetPrivate(callers, idArgs, privateArgs) ==
    /\ \E userId \in callers, a \in idArgs, b \in privateArgs :
           tasks_setPrivate(userId, a, b)
    /\ UNCHANGED pending

\* The server: method invocations from any connection, and the clock.
Insert == CallInsert(UserIds, Texts \cup NotStrings)

Remove == CallRemove(UserIds, Ids \cup NotStrings)

SetChecked == CallSetChecked(UserIds, Ids \cup NotStrings, Booleans \cup NotBooleans)

SetPrivate == CallSetPrivate(UserIds, Ids, Booleans)

Next ==
    \/ Insert
    \/ Remove
    \/ SetChecked
    \/ SetPrivate
    \/ Tick

Spec == Init /\ [][Next]_vars

\* The App component on one client, with the server behind it: the user
\* logs in and out, types, submits and toggles; the server runs the calls
\* the client has sent, and the remove, setChecked and private writes that
\* reach it from any connection. The clock stands still: the component
\* reads createdAt only to order the list. A private write here makes a
\* task private; the publication treats private false and unset alike.

\* onChange of the new-task input, which exists only when currentUser is set.
TypeText ==
    /\ Truthy(currentUser)
    /\ \E value \in Drafts : setText(value)

Login == \E u \in Meteor_users : login(u)

ServerRunPending == calls < MaxAppCalls /\ runPending

ServerRemove == calls < MaxAppCalls /\ CallRemove(UserIds, Ids)

ServerSetChecked ==
    /\ calls < MaxAppCalls
    /\ CallSetChecked(UserIds, Ids, Booleans \cup NotBooleans)

ServerSetPrivate ==
    /\ calls < MaxAppCalls
    /\ CallSetPrivate(UserIds, Ids, {JSBool(TRUE)})

AppNext ==
    \/ TypeText
    \/ setHideCompleted
    \/ handleSubmit
    \/ Login
    \/ logout
    \/ ServerRunPending
    \/ ServerRemove
    \/ ServerSetChecked
    \/ ServerSetPrivate

AppSpec == Init /\ [][AppNext]_vars

(* ----------------------------------------------------------- properties *)

alice == JSStr("uA")

\* The documents of before and of Tasks that carry the id given as the
\* first argument of the latest invocation.
Target(coll) == {d \in coll : d._id = last.args[1]}

\* C1, as stated: every tasks.insert call by an unauthenticated caller fails
\* with 'not-authorized' and leaves the store as it was.
C1_Original ==
    (last.method = "tasks.insert" /\ last.userId = null)
        => (last.error = "not-authorized" /\ Tasks = before)

\* C1, amended: every tasks.insert call by an unauthenticated caller fails and
\* leaves the store as it was; when the text is a string the error is
\* 'not-authorized'.
C1_UnauthenticatedInsert ==
    (last.method = "tasks.insert" /\ last.userId = null)
        => /\ last.error # "none"
           /\ Tasks = before
           /\ last.args[1].t = "string" => last.error = "not-authorized"

C1_Witness ==
    /\ last.method = "tasks.insert"
    /\ last.userId = null
    /\ last.args[1].t = "string"
    /\ last.error = "not-authorized"
    /\ before # {}
    /\ Tasks = before

\* C2: a tasks.insert call with a string text by an authenticated caller u
\* adds exactly one document, under a new id, with owner u, the given text,
\* u's username, createdAt not later than now and checked unset or false,
\* and leaves the documents that existed unchanged.
C2_InsertCreatesOne ==
    (last.method = "tasks.insert" /\ last.userId # null /\ last.args[1].t = "string")
        => /\ last.error = "none"
           /\ \E d \in Tasks \ before :
                /\ Tasks = before \cup {d}
                /\ \A b \in before : b._id # d._id
                /\ d.owner = last.userId
                /\ d.text = last.args[1]
                /\ \E u \in Meteor_users :
                       u._id = last.userId /\ d.username = u.username
                /\ d.createdAt <= now
                /\ d.checked \in {undefined, JSBool(FALSE)}

C2_Witness ==
    /\ last.method = "tasks.insert"
    /\ last.userId # null
    /\ last.error = "none"
    /\ before # {}
    /\ Cardinality(Tasks) = Cardinality(before) + 1

\* C3: a tasks.remove call with the id of an existing task, by any caller,
\* removes exactly the document with that id.
C3_RemoveExactlyOne ==
    (last.method = "tasks.remove" /\ Target(before) # {})
        => /\ last.error = "none"
           /\ \E b \in Target(before) : Tasks = before \ {b}

C3_Witness ==
    /\ last.method = "tasks.remove"
    /\ last.userId # null
    /\ \E b \in Target(before) : b.owner # last.userId /\ Tasks = before \ {b}
    /\ Tasks # {}

\* C4: a tasks.setChecked call with the id of an existing task and a boolean
\* v, by any caller, makes checked equal to v on that document and changes
\* no other field of it and no other document.
C4_SetCheckedFrame ==
    (last.method = "tasks.setChecked" /\ last.args[2].t = "boolean"
        /\ Target(before) # {})
        => /\ last.error = "none"
           /\ \E b \in Target(before) : \E d \in Target(Tasks) :
                /\ d.checked = last.args[2]
                /\ d.text = b.text
                /\ d.createdAt = b.createdAt
                /\ d.owner = b.owner
                /\ d.username = b.username
                /\ d.private = b.private
                /\ Tasks \ {d} = before \ {b}

C4_Witness ==
    /\ last.method = "tasks.setChecked"
    /\ last.error = "none"
    /\ Cardinality(Tasks) >= 2
    /\ \E b \in Target(before) :
         /\ b.private = JSBool(TRUE)
         /\ b.checked # last.args[2]
         /\ b.owner # last.userId

\* C5: a private task of owner A is published to the connection of A and to
\* no connection of another user B; a task that is not private is published
\* to every connection.
C5_PublishFilter ==
    \A d \in Tasks :
        /\ d.private = JSBool(TRUE)
              => \A B \in UserIds \ {null} :
                     IF B = d.owner
                     THEN d \in tasksPublication(B)
                     ELSE d \notin tasksPublication(B)
        /\ d.private # JSBool(TRUE)
              => \A u \in UserIds : d \in tasksPublication(u)

C5_Witness ==
    \E d \in Tasks : \E e \in Tasks :
        /\ d.private = JSBool(TRUE)
        /\ d.owner = alice
        /\ e.private # JSBool(TRUE)

\* C6: in every step, a task that exists before and after the step keeps its
\* owner, createdAt, username and text: only checked and private may change.
C6_Immutable ==
    [][\A d \in Tasks : \A e \in Tasks' :
           e._id = d._id
               => /\ e.owner = d.owner
                  /\ e.createdAt = d.createdAt
                  /\ e.username = d.username
                  /\ e.text = d.text]_vars

C6_Witness ==
    /\ last.method = "tasks.setChecked"
    /\ \E b \in Target(before) : \E d \in Target(Tasks) :
         /\ d.checked # b.checked
         /\ d.owner # last.userId

\* C7: a call of tasks.insert, tasks.remove or tasks.setChecked with an
\* argument of the wrong type fails with the validation error and leaves the
\* store as it was, whoever the caller is.
C7_TypeMismatch ==
    (\/ last.method = "tasks.insert" /\ last.args[1].t # "string"
     \/ last.method = "tasks.remove" /\ last.args[1].t # "string"
     \/ last.method = "tasks.setChecked"
            /\ (last.args[1].t # "string" \/ last.args[2].t # "boolean"))
        => (last.error = "Match failed" /\ Tasks = before)

C7_Witness ==
    /\ last.method = "tasks.setChecked"
    /\ last.args[2].t # "boolean"
    /\ Target(before) # {}
    /\ last.error = "Match failed"
    /\ Tasks = before

\* C10: every task has an owner that is neither null nor missing, and no
\* private task is published to a connection that is not logged in.
C10_LoggedOutSeesNoPrivate ==
    /\ \A d \in Tasks : d.owner \notin {null, undefined}
    /\ \A d \in tasksPublication(null) : d.private # JSBool(TRUE)

C10_Witness ==
    /\ last.method = "tasks.insert"
    /\ last.userId = null
    /\ last.error = "not-authorized"
    /\ \E d \in Tasks : d.private = JSBool(TRUE) /\ d \notin tasksPublication(null)

\* The task is among the <Task> elements renderTasks returns.
Rendered(d) == \E i \in DOMAIN renderTasks : renderTasks[i].key = d._id

\* The latest invocation is alice's insert of a task, and the client is
\* alice's.
AliceInserted ==
    /\ last.method = "tasks.insert"
    /\ last.error = "none"
    /\ last.userId = alice
    /\ clientUserId = alice

\* With the toggle on a subscribed task is not rendered exactly when its
\* checked is true; with the toggle off every subscribed task is rendered.
HiddenIffChecked ==
    /\ hideCompleted
          => \A d \in subscribed : ~Rendered(d) <=> d.checked = JSBool(TRUE)
    /\ ~hideCompleted => \A d \in subscribed : Rendered(d)

\* C8, as stated: the task alice inserted is in her subscribed set with
\* checked = false and is rendered, toggle on or off; a task is hidden by the
\* toggle exactly when its checked is true.
C8_Original ==
    /\ AliceInserted
          => \E d \in Tasks \ before :
                 d \in subscribed /\ d.checked = JSBool(FALSE) /\ Rendered(d)
    /\ HiddenIffChecked

\* C8, amended: the task alice inserted is in her subscribed set with checked
\* unset and is rendered, toggle on or off; a task is hidden by the toggle
\* exactly when its checked is true, which only setChecked(id, true) makes it.
C8_EndToEnd ==
    /\ AliceInserted
          => \E d \in Tasks \ before :
                 d \in subscribed /\ d.checked = undefined /\ Rendered(d)
    /\ HiddenIffChecked

C8_Witness ==
    /\ hideCompleted
    /\ clientUserId = alice
    /\ last.method = "tasks.setChecked"
    /\ last.args[2] = JSBool(TRUE)
    /\ \E b \in Target(before) : \E d \in Target(subscribed) :
         /\ d.owner = alice
         /\ b.checked = undefined
         /\ ~Rendered(d)

\* C9: checked is only ever unset, true or false, and with the toggle on the
\* number of rendered tasks is the incompleteCount of the header.
C9_RenderedCount ==
    /\ \A d \in Tasks : d.checked \in {undefined, JSBool(TRUE), JSBool(FALSE)}
    /\ hideCompleted => Len(renderTasks) = incompleteCount

C9_Witness ==
    /\ hideCompleted
    /\ incompleteCount >= 1
    /\ Cardinality(subscribed) > incompleteCount
    /\ Len(renderTasks) = incompleteCount

====
